---- MODULE Spec2Model ----
(***************************************************************************)
(* Model of the peer-to-peer chat of src/networking/webrtc (the            *)
(* WebRTCConnection transport session and the Room membership protocol)    *)
(* and of the connection effect of src/app/routes/chat.tsx.                *)
(*                                                                         *)
(* Three Room instances share one room: the host "h" (userId = roomId)     *)
(* and the joiners "a" and "b" (roomId = "h").  The PeerJS library is the  *)
(* environment: it opens peers and data channels, delivers frames in FIFO  *)
(* order per channel direction and reports the close of a channel.         *)
(***************************************************************************)
EXTENDS Integers, Sequences, FiniteSets, TLC

VARIABLES
  peer,             \* WebRTCConnection.peer: "null", "pending" (created), "open"
  state,            \* WebRTCConnection.state
  connections,      \* WebRTCConnection.connections: Map in insertion order
  users,            \* Room.users: Map in insertion order, id -> UserInfo
  messageIdCounter, \* Room.messageIdCounter
  pc,               \* position of the pending Room.join() promise
  chan,             \* the DataConnection objects: status of both ends
  q,                \* frames in flight, per channel and receiving end
  ops,              \* number of join(), leave() and sendMessage() calls so far
  sentLog,          \* history: what each sendMessage returned, and on which channels
  onMessageLog,     \* history: the onMessage callback invocations of each room
  onJoinLog,        \* history: the (id, username) pairs onJoin was invoked with
  lastEvt,          \* history: the handler that ran last, its sends and callbacks
  inbox,            \* frames still to be handed to the host, and all of them
  mark,             \* history: a remembered program state, NoMark before
  joinSentSinceMark,\* history: a JOIN frame was sent since the mark was set
  \* chat.tsx, one run of the connection effect
  isHost,           \* URL parameter host=true
  cpc,              \* where the current initializePeer() invocation stands
  retryCount,       \* let retryCount of the effect
  retryTimer,       \* setTimeout(initializePeer, 1000) is pending
  closePending,     \* PeerJS is destroying the peer, 'close' not yet emitted
  timeoutTimer,     \* setTimeout(connectionTimeout, ...) is pending
  connState,        \* the DataConnection of the page: none, pending, open, closed
  connectionError,  \* React state connectionError
  isConnecting,     \* React state isConnecting
  isConnected,      \* React state isConnected
  regLog,           \* history: outcome of every registration of the run, in order
  surfaced,         \* history: every error the run set, with Len(regLog) at that time
  initCalls,        \* history: number of initializePeer() invocations of the run
  lastChat,         \* history: the last handler of the page that ran
  \* chat.tsx, across runs of the connection effect
  reconnectAttempt, \* React state reconnectAttempt: the index of the current run
  pagePeer,         \* React state peer: NULL or the run whose Peer it holds
  pageConnection,   \* React state connection: NULL or the run whose channel it holds
  old,              \* what is left of the earlier runs, run i-1 at position i
  heartbeat,        \* setInterval of the host branch is pending (checkConnectionId)
  signaling,        \* the current Peer's socket: open, disconnected, reconnecting
  reconnects        \* history: number of newPeer.reconnect() calls

netVars == <<peer, state, connections, users, messageIdCounter, pc, chan, q,
             ops, sentLog, onMessageLog, onJoinLog, lastEvt, inbox, mark,
             joinSentSinceMark>>
pageVars == <<reconnectAttempt, pagePeer, pageConnection, old, heartbeat,
              signaling, reconnects>>
chatVars == <<isHost, cpc, retryCount, retryTimer, closePending, timeoutTimer,
              connState, connectionError, isConnecting, isConnected, regLog,
              surfaced, initCalls, lastChat, pageVars>>
vars == <<netVars, chatVars>>

----------------------------------------------------------------------------
(* Bounds of the model *)

\* join(), leave() and sendMessage() calls in one run
MaxOps == 5
\* frames in flight per channel direction
MaxQueue == 3
\* JOIN and USER_LIST frames handed to one Room in a frame-order run
MaxFrames == 3
\* handleReconnect() calls on one chat page
MaxReconnects == 1
\* losses of the signalling socket of one chat page
MaxSignalLosses == 1
\* callbacks of a run of the effect that run after the run was replaced
MaxStaleCalls == 3

----------------------------------------------------------------------------
(* The participants *)

Host == "h"
Joiners == {"a", "b"}
Rooms == {Host} \cup Joiners

\* RoomOptions.roomId of every instance: the host's identity
RoomId(r) == Host

\* RoomOptions.username
Username(r) == CASE r = "h" -> "Hana" [] r = "a" -> "Abe" [] r = "b" -> "Bo"

Contents == {"hi", "yo"}

\* Room.userInfo, set by the constructor
UserInfo(r) == [id |-> r, username |-> Username(r)]

\* ConnectionState
ConnectionState == {"disconnected", "connecting", "connected", "failed"}

----------------------------------------------------------------------------
(* Channels: joiner j dials the host; its n-th dial is channel <<j, n>>.   *)
(* Each channel has the dialer's end "dial" and the host's end "acc".      *)

\* a joiner's n-th dial needs n join() calls and n - 1 leave() calls
MaxDials == (MaxOps + 1) \div 2
ChanIds == Joiners \X (1..MaxDials)
Sides == {"dial", "acc"}
Other(side) == IF side = "dial" THEN "acc" ELSE "dial"
Owner(c, side) == IF side = "dial" THEN c[1] ELSE Host
SideOf(c, r) == IF r = Host THEN "acc" ELSE "dial"

\* a fixed enumeration of the channels
ChanOrder == [i \in 1..(2 * MaxDials) |->
               <<IF i <= MaxDials THEN "a" ELSE "b",
                 IF i <= MaxDials THEN i ELSE i - MaxDials>>]

----------------------------------------------------------------------------
(* A JavaScript Map kept in insertion order: a sequence of [k, v] entries *)

MapHas(m, k) == \E i \in 1..Len(m) : m[i].k = k
MapGet(m, k) == m[CHOOSE i \in 1..Len(m) : m[i].k = k].v
MapSet(m, k, v) ==
  IF MapHas(m, k)
    THEN [i \in 1..Len(m) |-> IF m[i].k = k THEN [k |-> k, v |-> v] ELSE m[i]]
    ELSE Append(m, [k |-> k, v |-> v])
MapDelete(m, k) == SelectSeq(m, LAMBDA e : e.k # k)
MapKeys(m) == {m[i].k : i \in 1..Len(m)}
MapValues(m) == [i \in 1..Len(m) |-> m[i].v]

----------------------------------------------------------------------------
(* Frames of the room protocol (RoomMessage) and callback invocations *)

JoinFrame(user) == [type |-> "JOIN", user |-> user]
LeaveFrame(userId) == [type |-> "LEAVE", userId |-> userId]
ChatFrame(message) == [type |-> "CHAT", message |-> message]
UserListFrame(list) == [type |-> "USER_LIST", users |-> list]
NoFrame == [type |-> "NONE"]

OnJoinCall(id, username) == [cb |-> "onJoin", id |-> id, username |-> username]
OnLeaveCall(id) == [cb |-> "onLeave", id |-> id]
OnMessageCall(message, from) == [cb |-> "onMessage", message |-> message, from |-> from]
OnErrorCall(error) == [cb |-> "onError", error |-> error]

----------------------------------------------------------------------------
(* The handlers are functions of a world W: the fields a handler can       *)
(* change, plus the frames it sent, the callbacks it invoked, whether an   *)
(* exception escaped it, what it returned to the application and the       *)
(* channels it called conn.send on.                                        *)

World ==
  [peer |-> peer, state |-> state, connections |-> connections, users |-> users,
   chan |-> chan, q |-> q, sent |-> <<>>, cbs |-> <<>>, thrown |-> FALSE,
   ret |-> "-", tried |-> <<>>]

\* a payload that conn.send cannot serialize
Unsendable == [unsendable |-> TRUE]

\* conn.send(message) returns normally
Sendable(message) == message # Unsendable

\* DataConnection.send: a frame written on an open end travels to the other
\* end unless that end is already closed; on an end that is not open PeerJS
\* reports an error and sends nothing
ConnSend(W, c, side, frame) ==
  IF W.chan[c][side] # "open"
    THEN W
    ELSE LET to == Other(side)
             W1 == [W EXCEPT !.sent = Append(@, [to |-> Owner(c, to), chan |-> c,
                                                  frame |-> frame])]
         IN  IF W.chan[c][to] = "closed"
               THEN W1
               ELSE [W1 EXCEPT !.q[c][to] = Append(@, frame)]

\* try { conn.send(message) } catch (error) { ... }: what the statement
\* leaves behind
TrySend(W, c, side, message) ==
  LET W1 == [W EXCEPT !.tried = Append(@, c)]
  IN  IF Sendable(message) THEN ConnSend(W1, c, side, message) ELSE W1

\* variant: a sendMessage that reports success whenever it found a channel
SendMessageReturnsFound(W, r, peerId, message) == MapHas(W.connections[r], peerId)

\* WebRTCConnection.sendMessage: the value it returns
SendMessageReturns(W, r, peerId, message) ==
  MapHas(W.connections[r], peerId) /\ Sendable(message)

\* WebRTCConnection.sendMessage
SendTo(W, r, peerId, message) ==
  IF ~MapHas(W.connections[r], peerId)
    THEN W
    ELSE LET c == MapGet(W.connections[r], peerId)
         IN  TrySend(W, c, SideOf(c, r), message)

RECURSIVE BroadcastFrom(_, _, _, _)
BroadcastFrom(W, r, message, i) ==
  IF i > Len(W.connections[r])
    THEN W
    ELSE LET c == W.connections[r][i].v
         IN  BroadcastFrom(TrySend(W, c, SideOf(c, r), message), r, message, i + 1)

\* WebRTCConnection.broadcast
Broadcast(W, r, message) == BroadcastFrom(W, r, message, 1)

\* Room.sendJoinMessage with a target
SendJoinMessage(W, r, targetPeerId) ==
  SendTo(W, r, targetPeerId, JoinFrame(UserInfo(r)))

\* Room.sendUserList
SendUserList(W, r, targetPeerId) ==
  SendTo(W, r, targetPeerId, UserListFrame(MapValues(W.users[r])))

\* Room.broadcastJoinMessage
BroadcastJoinMessage(W, r, user) ==
  IF user.id = UserInfo(r).id
    THEN W
    ELSE Broadcast(W, r, JoinFrame(user))

\* Room.broadcastLeaveMessage
BroadcastLeaveMessage(W, r, userId) == Broadcast(W, r, LeaveFrame(userId))

\* variant: an onConnect that announces nothing
OnConnectSilent(W, r, peerId) == W

\* variant: an onConnect that sends the user list before the JOIN
OnConnectListFirst(W, r, peerId) ==
  SendJoinMessage(SendUserList(W, r, peerId), r, peerId)

\* Room.setupConnectionEvents: onConnect
OnConnect(W, r, peerId) ==
  SendUserList(SendJoinMessage(W, r, peerId), r, peerId)

\* variant: an onDisconnect without the test `this.users.has(peerId)`
OnDisconnectUnconditional(W, r, peerId) ==
  BroadcastLeaveMessage(
    [W EXCEPT !.users[r] = MapDelete(@, peerId),
              !.cbs = Append(@, OnLeaveCall(peerId))],
    r, peerId)

\* Room.setupConnectionEvents: onDisconnect
OnDisconnect(W, r, peerId) ==
  IF MapHas(W.users[r], peerId)
    THEN BroadcastLeaveMessage(
           [W EXCEPT !.users[r] = MapDelete(@, peerId),
                     !.cbs = Append(@, OnLeaveCall(peerId))],
           r, peerId)
    ELSE W

\* the value of a field that the frame does not have
Undefined == [undefined |-> TRUE]

\* Room.handleJoinMessage; `user.id` of a frame without user is a TypeError
HandleJoinMessage(W, r, message) ==
  IF "user" \notin DOMAIN message
    THEN [W EXCEPT !.thrown = TRUE]
    ELSE LET user == message.user
         IN  BroadcastJoinMessage(
               [W EXCEPT !.users[r] = MapSet(@, user.id, user),
                         !.cbs = Append(@, OnJoinCall(user.id, user.username))],
               r, user)

\* variant: a handleLeaveMessage that passes the LEAVE on to its peers
HandleLeaveMessageRelaying(W, r, message) ==
  IF "userId" \in DOMAIN message /\ MapHas(W.users[r], message.userId)
    THEN BroadcastLeaveMessage(
           [W EXCEPT !.users[r] = MapDelete(@, message.userId),
                     !.cbs = Append(@, OnLeaveCall(message.userId))],
           r, message.userId)
    ELSE W

\* Room.handleLeaveMessage; users.has(undefined) is false
HandleLeaveMessage(W, r, message) ==
  IF "userId" \in DOMAIN message /\ MapHas(W.users[r], message.userId)
    THEN [W EXCEPT !.users[r] = MapDelete(@, message.userId),
                   !.cbs = Append(@, OnLeaveCall(message.userId))]
    ELSE W

\* variant: a handleChatMessage that invokes onMessage twice
HandleChatMessageTwice(W, r, message, fromPeerId) ==
  [W EXCEPT !.cbs = @ \o <<OnMessageCall(message.message, fromPeerId),
                            OnMessageCall(message.message, fromPeerId)>>]

\* variant: a handleChatMessage that also relays the frame to its peers
HandleChatMessageRelaying(W, r, message, fromPeerId) ==
  Broadcast([W EXCEPT !.cbs = Append(@, OnMessageCall(message.message, fromPeerId))],
            r, message)

\* Room.handleChatMessage
HandleChatMessage(W, r, message, fromPeerId) ==
  LET m == IF "message" \in DOMAIN message THEN message.message ELSE Undefined
  IN  [W EXCEPT !.cbs = Append(@, OnMessageCall(m, fromPeerId))]

RECURSIVE UserListFrom(_, _, _, _)
UserListFrom(W, r, list, i) ==
  IF i > Len(list)
    THEN W
    ELSE LET user == list[i]
         IN  IF MapHas(W.users[r], user.id)
               THEN UserListFrom(W, r, list, i + 1)
               ELSE UserListFrom(
                      [W EXCEPT !.users[r] = MapSet(@, user.id, user),
                                !.cbs = Append(@, OnJoinCall(user.id, user.username))],
                      r, list, i + 1)

\* variant: a handleUserListMessage that stores every listed user, known or not
RECURSIVE UserListOverwriteFrom(_, _, _, _)
UserListOverwriteFrom(W, r, list, i) ==
  IF i > Len(list)
    THEN W
    ELSE UserListOverwriteFrom(
           [W EXCEPT !.users[r] = MapSet(@, list[i].id, list[i]),
                     !.cbs = Append(@, OnJoinCall(list[i].id, list[i].username))],
           r, list, i + 1)

HandleUserListMessageOverwriting(W, r, message) ==
  UserListOverwriteFrom(W, r, message.users, 1)

\* variant: a handleUserListMessage that replaces the membership by the list
HandleUserListMessageReplacing(W, r, message) ==
  UserListFrom([W EXCEPT !.users[r] = <<>>], r, message.users, 1)

\* Room.handleUserListMessage; `users.forEach` of a frame without users is
\* a TypeError
HandleUserListMessage(W, r, message) ==
  IF "users" \notin DOMAIN message
    THEN [W EXCEPT !.thrown = TRUE]
    ELSE UserListFrom(W, r, message.users, 1)

\* Room.handleRoomMessage
HandleRoomMessage(W, r, data, fromPeerId) ==
  IF "type" \notin DOMAIN data
    THEN W
    ELSE CASE data.type = "JOIN" -> HandleJoinMessage(W, r, data)
           [] data.type = "LEAVE" -> HandleLeaveMessage(W, r, data)
           [] data.type = "CHAT" -> HandleChatMessage(W, r, data, fromPeerId)
           [] data.type = "USER_LIST" -> HandleUserListMessage(W, r, data)
           [] OTHER -> W

\* setupConnectionListeners: conn.on('close')
CloseHandler(W, r, remotePeerId) ==
  OnDisconnect([W EXCEPT !.connections[r] = MapDelete(@, remotePeerId)], r, remotePeerId)

\* DataConnection.close: an open end closes, drops what was still coming in
\* and emits 'close' at once; an end that never opened closes silently
ConnClose(W, c, side) ==
  CASE W.chan[c][side] = "open" ->
         CloseHandler([W EXCEPT !.chan[c][side] = "closed", !.q[c][side] = <<>>],
                      Owner(c, side), Owner(c, Other(side)))
    [] W.chan[c][side] = "pending" ->
         [W EXCEPT !.chan[c][side] = "closed", !.q[c][side] = <<>>]
    [] OTHER -> W

\* connections.forEach(conn => conn.close()): entries removed meanwhile are skipped
RECURSIVE CloseAll(_, _, _, _)
CloseAll(W, r, snapshot, i) ==
  IF i > Len(snapshot)
    THEN W
    ELSE IF MapHas(W.connections[r], snapshot[i].k)
           THEN LET c == MapGet(W.connections[r], snapshot[i].k)
                IN  CloseAll(ConnClose(W, c, SideOf(c, r)), r, snapshot, i + 1)
           ELSE CloseAll(W, r, snapshot, i + 1)

\* Peer.destroy: closes every connection of the peer, also those that are
\* not (or no longer) in the connections map
RECURSIVE DestroyFrom(_, _, _)
DestroyFrom(W, r, i) ==
  IF i > Len(ChanOrder)
    THEN W
    ELSE LET c == ChanOrder[i]
         IN  IF Owner(c, SideOf(c, r)) = r
               THEN DestroyFrom(ConnClose(W, c, SideOf(c, r)), r, i + 1)
               ELSE DestroyFrom(W, r, i + 1)

\* this.peer.destroy(); this.peer = null -- on a null peer the call throws
PeerDestroy(W, r) ==
  IF W.peer[r] = "null"
    THEN [W EXCEPT !.thrown = TRUE]
    ELSE [DestroyFrom(W, r, 1) EXCEPT !.peer[r] = "null"]

\* variant: a disconnect that leaves the peer alive
DisconnectKeepsPeer(W, r) ==
  LET W1 == CloseAll(W, r, W.connections[r], 1)
  IN  [W1 EXCEPT !.connections[r] = <<>>, !.state[r] = "disconnected"]

\* variant: a disconnect without the test `if (this.peer)`
DisconnectUnguarded(W, r) ==
  LET W1 == CloseAll(W, r, W.connections[r], 1)
      W2 == [W1 EXCEPT !.connections[r] = <<>>]
  IN  [PeerDestroy(W2, r) EXCEPT !.state[r] = "disconnected"]

\* WebRTCConnection.disconnect
Disconnect(W, r) ==
  LET W1 == CloseAll(W, r, W.connections[r], 1)
      W2 == [W1 EXCEPT !.connections[r] = <<>>]
      W3 == IF W2.peer[r] # "null" THEN PeerDestroy(W2, r) ELSE W2
  IN  [W3 EXCEPT !.state[r] = "disconnected"]

\* variant: a leave that first announces LEAVE for the local user
LeaveAnnouncing(W, r) ==
  [Disconnect(BroadcastLeaveMessage(W, r, UserInfo(r).id), r) EXCEPT
     !.users[r] = <<>>]

\* Room.leave
Leave(W, r) == [Disconnect(W, r) EXCEPT !.users[r] = <<>>]

----------------------------------------------------------------------------
(* Initial state: three constructed Room instances, nothing joined *)

NoMark == <<>>

NoEvt == [op |-> "init", room |-> "-", peer |-> "-", frame |-> NoFrame,
          sent |-> <<>>, cbs |-> <<>>, thrown |-> FALSE, ret |-> "-",
          tried |-> <<>>, again |-> FALSE,
          was |-> "-"]

\* Room.constructor and the field initialisers of Room and WebRTCConnection
NetInit ==
  /\ peer = [r \in Rooms |-> "null"]
  /\ state = [r \in Rooms |-> "disconnected"]
  /\ connections = [r \in Rooms |-> <<>>]
  /\ users = [r \in Rooms |-> <<[k |-> r, v |-> UserInfo(r)]>>]
  /\ messageIdCounter = [r \in Rooms |-> 0]
  /\ pc = [r \in Rooms |-> "idle"]
  /\ chan = [c \in ChanIds |-> [dial |-> "none", acc |-> "none"]]
  /\ q = [c \in ChanIds |-> [dial |-> <<>>, acc |-> <<>>]]
  /\ ops = 0
  /\ sentLog = [r \in Rooms |-> <<>>]
  /\ onMessageLog = [r \in Rooms |-> <<>>]
  /\ onJoinLog = [r \in Rooms |-> {}]
  /\ lastEvt = NoEvt
  /\ mark = NoMark
  /\ joinSentSinceMark = FALSE

NoInbox == [pending |-> {}, announced |-> {}]
NULL == "null"

\* useState<Peer | null>(null): the state holds no run's object
NoRun == 0 - 1

\* the page before any handleReconnect(), with no Peer created yet
PageFresh ==
  /\ reconnectAttempt = 0
  /\ pagePeer = NoRun
  /\ pageConnection = NoRun
  /\ old = <<>>
  /\ heartbeat = FALSE
  /\ signaling = "open"
  /\ reconnects = 0

\* no chat page is mounted
ChatOff ==
  /\ isHost = FALSE
  /\ cpc = "none"
  /\ retryCount = 0
  /\ retryTimer = FALSE
  /\ closePending = FALSE
  /\ timeoutTimer = FALSE
  /\ connState = "none"
  /\ connectionError = NULL
  /\ isConnecting = FALSE
  /\ isConnected = FALSE
  /\ regLog = <<>>
  /\ surfaced = {}
  /\ initCalls = 0
  /\ lastChat = "none"
  /\ PageFresh

Init == NetInit /\ inbox = NoInbox /\ ChatOff

\* the record of a step: `again` marks a leave() that directly follows a
\* leave() of the same room, `was` is where the room's join() stood before
Evt(op, r, p, f, W) ==
  [op |-> op, room |-> r, peer |-> p, frame |-> f, sent |-> W.sent, cbs |-> W.cbs,
   thrown |-> W.thrown, ret |-> W.ret, tried |-> W.tried,
   again |-> (op = "leave" /\ lastEvt.op = "leave" /\ lastEvt.room = r),
   was |-> pc[r]]

Fits(W) == \A c \in ChanIds : \A side \in Sides : Len(W.q[c][side]) <= MaxQueue

\* the state a handler of room r leaves behind, with the callback histories
Commit(W, r, evt) ==
  /\ Fits(W)
  /\ peer' = W.peer
  /\ state' = W.state
  /\ connections' = W.connections
  /\ users' = W.users
  /\ chan' = W.chan
  /\ q' = W.q
  /\ onMessageLog' =
       [onMessageLog EXCEPT ![r] =
          @ \o [i \in 1..Len(SelectSeq(W.cbs, LAMBDA e : e.cb = "onMessage")) |->
                  LET e == SelectSeq(W.cbs, LAMBDA x : x.cb = "onMessage")[i]
                  IN  [message |-> e.message, from |-> e.from]]]
  /\ onJoinLog' =
       [onJoinLog EXCEPT ![r] =
          @ \cup {<<W.cbs[i].id, W.cbs[i].username>> :
                    i \in {j \in 1..Len(W.cbs) : W.cbs[j].cb = "onJoin"}}]
  /\ lastEvt' = evt
  /\ UNCHANGED chatVars
  /\ mark' = mark
  /\ joinSentSinceMark' =
       (joinSentSinceMark
          \/ (mark # NoMark /\ \E i \in 1..Len(W.sent) : W.sent[i].frame.type = "JOIN"))

----------------------------------------------------------------------------
(* Operations and callbacks *)

\* the next unused channel of dialer r
NextChan(W, r) ==
  <<r, 1 + Cardinality({n \in 1..MaxDials : W.chan[<<r, n>>].dial # "none"})>>

\* WebRTCConnection.connect up to the pending promise: the dial; the host's
\* end comes to exist only when the host is registered
Connect(W, r, remotePeerId) ==
  IF W.peer[r] = "null"
    THEN W
    ELSE [W EXCEPT !.state[r] = "connecting",
                   !.chan[NextChan(W, r)] =
                      [dial |-> "pending",
                       acc |-> IF W.peer[remotePeerId] = "open" THEN "pending"
                               ELSE "none"]]

\* variant: a join that drops the entry of the local identity
JoinAfterInitializeDropsLocal(W, r, peerId) ==
  LET W1 == [W EXCEPT !.users[r] = MapDelete(@, r)]
  IN  IF RoomId(r) # peerId THEN Connect(W1, r, RoomId(r)) ELSE W1

\* Room.join after `await this.connection.initialize()`
JoinAfterInitialize(W, r, peerId) ==
  LET W1 == IF peerId # UserInfo(r).id
              THEN [W EXCEPT !.users[r] =
                      MapSet(MapDelete(@, r), peerId,
                             [id |-> peerId, username |-> Username(r)])]
              ELSE W
  IN  IF RoomId(r) # peerId THEN Connect(W1, r, RoomId(r)) ELSE W1

\* Room.join: initialize() creates the Peer and waits for its 'open'
Join(r) ==
  /\ pc[r] = "idle"
  /\ ops < MaxOps
  /\ ops' = ops + 1
  /\ pc' = [pc EXCEPT ![r] = "init"]
  /\ Commit([World EXCEPT !.peer[r] = "pending"], r, Evt("join", r, "-", NoFrame, World))
  /\ UNCHANGED <<messageIdCounter, sentLog, inbox>>

\* initialize: peer.on('open'), then the continuation of join()
PeerOpen(r) ==
  /\ peer[r] = "pending"
  /\ LET W0 == [World EXCEPT !.peer[r] = "open", !.state[r] = "connected"]
         W1 == JoinAfterInitialize(W0, r, r)
     IN  /\ pc' = [pc EXCEPT ![r] = IF RoomId(r) # r THEN "conn" ELSE "done"]
         /\ Commit(W1, r, Evt("peerOpen", r, "-", NoFrame, W1))
  /\ UNCHANGED <<messageIdCounter, ops, sentLog, inbox>>

\* connect: conn.on('open') of the dialled connection, then join() returns
DialOpen(c) ==
  /\ chan[c].dial = "pending"
  /\ chan[c].acc \in {"pending", "open"}
  /\ LET r == Owner(c, "dial")
         p == Owner(c, "acc")
         W0 == [World EXCEPT !.chan[c].dial = "open",
                             !.connections[r] = MapSet(@, p, c)]
         W1 == OnConnect(W0, r, p)
     IN  /\ pc' = [pc EXCEPT ![r] = "done"]
         /\ Commit(W1, r, Evt("connect", r, p, NoFrame, W1))
  /\ UNCHANGED <<messageIdCounter, ops, sentLog, inbox>>

\* handleIncomingConnection: conn.on('open') of an inbound connection
AccOpen(c) ==
  /\ chan[c].acc = "pending"
  /\ chan[c].dial \in {"pending", "open"}
  /\ LET r == Owner(c, "acc")
         p == Owner(c, "dial")
         W0 == [World EXCEPT !.chan[c].acc = "open",
                             !.connections[r] = MapSet(@, p, c)]
         W1 == OnConnect(W0, r, p)
     IN  Commit(W1, r, Evt("connect", r, p, NoFrame, W1))
  /\ UNCHANGED <<messageIdCounter, pc, ops, sentLog, inbox>>

\* setupConnectionListeners: conn.on('data')
Deliver(c, side) ==
  /\ chan[c][side] = "open"
  /\ q[c][side] # <<>>
  /\ LET r == Owner(c, side)
         p == Owner(c, Other(side))
         data == Head(q[c][side])
         W0 == [World EXCEPT !.q[c][side] = Tail(@)]
         W1 == HandleRoomMessage(W0, r, data, p)
     IN  Commit(W1, r, Evt("data", r, p, data, W1))
  /\ UNCHANGED <<messageIdCounter, pc, ops, sentLog, inbox>>

\* setupConnectionListeners: conn.on('close') after the other end closed
RemoteClose(c, side) ==
  /\ chan[c][side] = "open"
  /\ chan[c][Other(side)] = "closed"
  /\ LET r == Owner(c, side)
         p == Owner(c, Other(side))
         W0 == [World EXCEPT !.chan[c][side] = "closed", !.q[c][side] = <<>>]
         W1 == CloseHandler(W0, r, p)
     IN  Commit(W1, r, Evt("close", r, p, NoFrame, W1))
  /\ UNCHANGED <<messageIdCounter, pc, ops, sentLog, inbox>>

\* variant: a getNextMessageId that starts over at every call
GetNextMessageIdFrozen(counter) == 1

\* Room.getNextMessageId
GetNextMessageId(counter) == counter + 1

\* history: how many times the joiner r has dialled the host so far
Dials(r) ==
  IF r \in Joiners THEN Cardinality({c \in ChanIds : c[1] = r /\ chan[c].dial # "none"})
  ELSE 0

\* Room.sendMessage (the timestamp Date.now() is left out of the message)
SendMessage(r, content) ==
  /\ ops < MaxOps
  /\ ops' = ops + 1
  /\ LET id == GetNextMessageId(messageIdCounter[r])
         message == [id |-> id, sender |-> UserInfo(r).username, content |-> content]
         W1 == Broadcast(World, r, ChatFrame(message))
     IN  /\ messageIdCounter' = [messageIdCounter EXCEPT ![r] = id]
         /\ sentLog' = [sentLog EXCEPT ![r] =
                          Append(@, [message |-> message,
                                     dials |-> Dials(r),
                                     chans |-> {W1.sent[i].chan : i \in 1..Len(W1.sent)}])]
         /\ Commit(W1, r, Evt("sendMessage", r, "-", ChatFrame(message), W1))
  /\ UNCHANGED <<pc, inbox>>

\* Room.leave
LeaveRoom(r) ==
  /\ ops < MaxOps
  /\ ops' = ops + 1
  /\ pc' = [pc EXCEPT ![r] = "idle"]
  /\ LET W1 == Leave(World, r)
     IN  Commit(W1, r, Evt("leave", r, "-", NoFrame, W1))
  /\ UNCHANGED <<messageIdCounter, sentLog, inbox>>

----------------------------------------------------------------------------
(* Spec: a host and one joiner, every operation at any time.               *)

Pair == {Host, "a"}

Next ==
  \/ \E r \in Pair : Join(r)
  \/ \E r \in Pair : PeerOpen(r)
  \/ \E c \in ChanIds : DialOpen(c)
  \/ \E c \in ChanIds : AccOpen(c)
  \/ \E c \in ChanIds : \E side \in Sides : Deliver(c, side)
  \/ \E c \in ChanIds : \E side \in Sides : RemoteClose(c, side)
  \/ \E r \in Pair : \E content \in Contents : SendMessage(r, content)
  \/ \E r \in Pair : LeaveRoom(r)

Spec == Init /\ [][Next]_vars

----------------------------------------------------------------------------
(* SpecSend: the host and both joiners; joiner a may leave; the host's      *)
(* application calls sendMessage and broadcast of its WebRTCConnection at   *)
(* any time, with payloads that can and that cannot be serialized.          *)

Payloads ==
  {ChatFrame([id |-> 0, sender |-> "app", content |-> "hi"]), Unsendable}

\* WebRTCConnection.sendMessage called by the application
SendDirect(r, peerId, payload) ==
  /\ ops < MaxOps
  /\ ops' = ops + 1
  /\ LET W1 == [SendTo(World, r, peerId, payload) EXCEPT
                  !.ret = IF SendMessageReturns(World, r, peerId, payload)
                            THEN "true" ELSE "false"]
     IN  Commit(W1, r, Evt("send", r, peerId, payload, W1))
  /\ UNCHANGED <<messageIdCounter, pc, sentLog, inbox>>

\* WebRTCConnection.broadcast called by the application
BroadcastDirect(r, payload) ==
  /\ ops < MaxOps
  /\ ops' = ops + 1
  /\ LET W1 == Broadcast(World, r, payload)
     IN  Commit(W1, r, Evt("broadcast", r, "-", payload, W1))
  /\ UNCHANGED <<messageIdCounter, pc, sentLog, inbox>>

NextSend ==
  \/ \E r \in Rooms : Join(r)
  \/ \E r \in Rooms : PeerOpen(r)
  \/ \E c \in ChanIds : DialOpen(c)
  \/ \E c \in ChanIds : AccOpen(c)
  \/ \E c \in ChanIds : \E side \in Sides : Deliver(c, side)
  \/ \E c \in ChanIds : \E side \in Sides : RemoteClose(c, side)
  \/ LeaveRoom("a")
  \/ \E peerId \in Rooms : \E payload \in Payloads :
       SendDirect(Host, peerId, payload)
  \/ \E payload \in Payloads : BroadcastDirect(Host, payload)

SpecSend == Init /\ [][NextSend]_vars

----------------------------------------------------------------------------
(* SpecDepart: the host has joined and joiner b has joined it; joiner a     *)
(* joins, may leave and may join again; b may leave; nobody sends a chat    *)
(* message.                                                                 *)

\* the state after the host's join() and then b's join() have returned and
\* the frames of b's channel have been handled at both ends
InitDepart ==
  /\ peer = [r \in Rooms |-> IF r = "a" THEN "null" ELSE "open"]
  /\ state = [r \in Rooms |->
               CASE r = Host -> "connected"
                 [] r = "b" -> "connecting"
                 [] OTHER -> "disconnected"]
  /\ connections = [r \in Rooms |->
                     CASE r = Host -> <<[k |-> "b", v |-> <<"b", 1>>]>>
                       [] r = "b" -> <<[k |-> Host, v |-> <<"b", 1>>]>>
                       [] OTHER -> <<>>]
  /\ users = [r \in Rooms |->
               CASE r = Host -> <<[k |-> Host, v |-> UserInfo(Host)],
                                  [k |-> "b", v |-> UserInfo("b")]>>
                 [] r = "b" -> <<[k |-> "b", v |-> UserInfo("b")],
                                 [k |-> Host, v |-> UserInfo(Host)]>>
                 [] OTHER -> <<[k |-> r, v |-> UserInfo(r)]>>]
  /\ messageIdCounter = [r \in Rooms |-> 0]
  /\ pc = [r \in Rooms |-> IF r = "a" THEN "idle" ELSE "done"]
  /\ chan = [c \in ChanIds |->
              IF c = <<"b", 1>> THEN [dial |-> "open", acc |-> "open"]
              ELSE [dial |-> "none", acc |-> "none"]]
  /\ q = [c \in ChanIds |-> [dial |-> <<>>, acc |-> <<>>]]
  /\ ops = 0
  /\ sentLog = [r \in Rooms |-> <<>>]
  /\ onMessageLog = [r \in Rooms |-> <<>>]
  /\ onJoinLog = [r \in Rooms |-> {}]
  /\ lastEvt = NoEvt
  /\ mark = NoMark
  /\ joinSentSinceMark = FALSE
  /\ inbox = NoInbox
  /\ ChatOff

NextDepart ==
  \/ Join("a")
  \/ PeerOpen("a")
  \/ \E c \in ChanIds : DialOpen(c)
  \/ \E c \in ChanIds : AccOpen(c)
  \/ \E c \in ChanIds : \E side \in Sides : Deliver(c, side)
  \/ \E c \in ChanIds : \E side \in Sides : RemoteClose(c, side)
  \/ \E r \in Joiners : LeaveRoom(r)

SpecDepart == InitDepart /\ [][NextDepart]_vars

----------------------------------------------------------------------------
(* SpecErrors: a host and one joiner, with the errors PeerJS reports while  *)
(* initialize() or connect() is pending.  PeerJS reports a taken id and a   *)
(* lost socket on the Peer; an id that nobody registered is reported on the *)
(* Peer as well ('peer-unavailable'), and a failed negotiation on the       *)
(* DataConnection.  A Peer whose registration failed is destroyed by        *)
(* PeerJS, one that lost its socket stays disconnected.                     *)

\* the onError of setupConnectionEvents
OnError(W, error) == [W EXCEPT !.cbs = Append(@, OnErrorCall(error))]

\* the test `this.state !== ConnectionState.CONNECTED` of peer.on('error')
RejectsInitialize(W, r) == W.state[r] # "connected"

PeerErrors == {"unavailable-id", "network", "peer-unavailable"}

\* the dials of r that found nobody registered under the identity
Unanswered(r) ==
  {c \in ChanIds : /\ Owner(c, "dial") = r
                   /\ chan[c] = [dial |-> "pending", acc |-> "none"]}

\* initialize: peer.on('error').  Its reject is the one of initialize()'s
\* promise, which is settled once the peer has opened; join() rethrows what
\* initialize() rejects with.
PeerError(r, error) ==
  /\ CASE error = "unavailable-id" -> peer[r] = "pending"
       [] error = "network" -> peer[r] \in {"pending", "open"}
       [] error = "peer-unavailable" -> peer[r] = "open" /\ Unanswered(r) # {}
  /\ LET W0 == [World EXCEPT !.peer[r] =
                   CASE error = "unavailable-id" -> "destroyed"
                     [] error = "network" -> "disconnected"
                     [] OTHER -> @]
         W1 == OnError(W0, error)
     IN  /\ pc' = [pc EXCEPT ![r] =
                     IF @ = "init" /\ RejectsInitialize(W1, r) THEN "rejected"
                     ELSE @]
         /\ Commit(W1, r, Evt("peerError", r, "-", NoFrame, W1))
  /\ UNCHANGED <<messageIdCounter, ops, sentLog, inbox>>

\* connect: conn.on('error'), after which PeerJS closes the connection;
\* join() rethrows what connect() rejects with
ConnError(c) ==
  /\ chan[c].dial = "pending"
  /\ LET r == Owner(c, "dial")
         p == Owner(c, "acc")
         W1 == OnError(ConnClose(World, c, "dial"), "negotiation-failed")
     IN  /\ pc' = [pc EXCEPT ![r] = IF @ = "conn" THEN "rejected" ELSE @]
         /\ Commit(W1, r, Evt("connError", r, p, NoFrame, W1))
  /\ UNCHANGED <<messageIdCounter, ops, sentLog, inbox>>

NextErrors ==
  \/ \E r \in Pair : Join(r)
  \/ \E r \in Pair : PeerOpen(r)
  \/ \E c \in ChanIds : DialOpen(c)
  \/ \E c \in ChanIds : AccOpen(c)
  \/ \E c \in ChanIds : \E side \in Sides : Deliver(c, side)
  \/ \E c \in ChanIds : \E side \in Sides : RemoteClose(c, side)
  \/ \E r \in Pair : LeaveRoom(r)
  \/ \E r \in Pair : \E error \in PeerErrors : PeerError(r, error)
  \/ \E c \in ChanIds : ConnError(c)

SpecErrors == Init /\ [][NextErrors]_vars

----------------------------------------------------------------------------
(* SpecMesh: the host and both joiners join once and nobody acts further;  *)
(* the event loop dispatches every pending open and data event.            *)

\* the program state without the histories
Program == <<peer, state, connections, users, messageIdCounter, pc, chan, q>>

FramesInFlight ==
  LET n(c) == Len(q[c].dial) + Len(q[c].acc)
  IN  n(<<"a", 1>>) + n(<<"b", 1>>)

\* observer: remember a state in which the host holds an open channel to
\* both joiners and a single frame is in flight
MarkState ==
  /\ mark = NoMark
  /\ \A j \in Joiners : chan[<<j, 1>>] = [dial |-> "open", acc |-> "open"]
  /\ FramesInFlight = 1
  /\ mark' = Program
  /\ UNCHANGED <<peer, state, connections, users, messageIdCounter, pc, chan, q,
                 ops, sentLog, onMessageLog, onJoinLog, lastEvt, inbox,
                 joinSentSinceMark>>
  /\ UNCHANGED chatVars

NextMesh ==
  \/ MarkState
  \/ \E r \in Rooms : Join(r)
  \/ \E r \in Rooms : PeerOpen(r)
  \/ \E c \in ChanIds : DialOpen(c)
  \/ \E c \in ChanIds : AccOpen(c)
  \/ \E c \in ChanIds : \E side \in Sides : Deliver(c, side)

SpecMesh == Init /\ [][NextMesh]_vars

----------------------------------------------------------------------------
(* SpecFrames: a set of JOIN and USER_LIST frames reaches the host Room in  *)
(* any order.  The frames announce the host itself and two other ids; the   *)
(* ids "h" and "a" are announced under two different names.                 *)

FrameUsers ==
  {[id |-> "h", username |-> "Hana"], [id |-> "h", username |-> "Zed"],
   [id |-> "a", username |-> "Abe"], [id |-> "a", username |-> "Zed"],
   [id |-> "b", username |-> "Bo"]}

FrameUniverse ==
  {JoinFrame(u) : u \in FrameUsers}
    \cup {UserListFrame(<<u>>) : u \in FrameUsers}
    \cup {UserListFrame(<<u, v>>) : u \in FrameUsers, v \in FrameUsers}

\* the sets of at most n frames
RECURSIVE FrameSets(_)
FrameSets(n) ==
  IF n = 0 THEN {{}}
  ELSE LET P == FrameSets(n - 1)
       IN  P \cup {S \cup {f} : S \in P, f \in FrameUniverse}

InitFrames ==
  /\ NetInit
  /\ ChatOff
  /\ \E S \in FrameSets(MaxFrames) \ {{}} :
       inbox = [pending |-> S, announced |-> S]

\* conn.on('data') for a frame of the set, received from peer "a"
HandFrame(f) ==
  /\ f \in inbox.pending
  /\ inbox' = [inbox EXCEPT !.pending = @ \ {f}]
  /\ LET W1 == HandleRoomMessage(World, Host, f, "a")
     IN  Commit(W1, Host, Evt("data", Host, "a", f, W1))
  /\ UNCHANGED <<messageIdCounter, pc, ops, sentLog>>

NextFrames == \E f \in FrameUniverse : HandFrame(f)

SpecFrames == InitFrames /\ [][NextFrames]_vars

----------------------------------------------------------------------------
(* SpecMalformed: the host receives frames that lack the type, carry an     *)
(* unknown type or lack the payload of their type, mixed with well-formed   *)
(* frames, in every order.                                                  *)

Malformed ==
  {[payload |-> "hi"], [type |-> "PING"], [type |-> "JOIN"], [type |-> "LEAVE"],
   [type |-> "CHAT"], [type |-> "USER_LIST"]}

WellFormed ==
  {JoinFrame(UserInfo("a")),
   ChatFrame([id |-> 1, sender |-> Username("a"), content |-> "hi"])}

\* the sets of at most n frames of U
RECURSIVE SetsOf(_, _)
SetsOf(U, n) ==
  IF n = 0 THEN {{}}
  ELSE LET P == SetsOf(U, n - 1)
       IN  P \cup {S \cup {f} : S \in P, f \in U}

InitMalformed ==
  /\ NetInit
  /\ ChatOff
  /\ \E S \in SetsOf(Malformed \cup WellFormed, MaxFrames) \ {{}} :
       inbox = [pending |-> S, announced |-> S]

NextMalformed == \E f \in Malformed \cup WellFormed : HandFrame(f)

SpecMalformed == InitMalformed /\ [][NextMalformed]_vars

----------------------------------------------------------------------------
(* SpecChat: the chat page (chat.tsx) from its mount on: one run of the     *)
(* connection effect with its probe, registrations, retries and timers.     *)
(* The page drives PeerJS directly.  PeerJS emits 'error' and then destroys *)
(* a peer whose registration failed, which emits 'close' in the same call.  *)

\* const MAX_RETRIES of the effect
MAX_RETRIES == 3

\* variant: a test that allows one more retry
RetryAllowedInclusive(count) == count <= MAX_RETRIES

\* the test `retryCount < MAX_RETRIES` of the 'error' handler
RetryAllowed(count) == count < MAX_RETRIES

\* setConnectionError(e), e # null, as the history sees it
Surface(e, log) == surfaced \cup {[error |-> e, at |-> Len(log)]}

\* the mount: useState initial values, the effect's locals, and
\* initializePeer() up to `await checkPeerJSServer()`
InitChat ==
  /\ NetInit
  /\ inbox = NoInbox
  /\ isHost \in BOOLEAN
  /\ cpc = "probing"
  /\ retryCount = 0
  /\ retryTimer = FALSE
  /\ closePending = FALSE
  /\ timeoutTimer = FALSE
  /\ connState = "none"
  /\ connectionError = NULL
  /\ isConnecting = TRUE
  /\ isConnected = FALSE
  /\ regLog = <<>>
  /\ surfaced = {}
  /\ initCalls = 1
  /\ lastChat = "initializePeer"
  /\ PageFresh

\* checkPeerJSServer resolves; initializePeer goes on to `new Peer(peerId)`
ChatProbe(serverAvailable) ==
  /\ cpc = "probing"
  /\ ~closePending
  /\ lastChat' = "probe"
  /\ IF serverAvailable
       THEN /\ cpc' = "registering"
            /\ UNCHANGED <<connectionError, isConnecting, surfaced>>
       ELSE /\ cpc' = "ended"
            /\ connectionError' = "signaling"
            /\ surfaced' = Surface("signaling", regLog)
            /\ isConnecting' = FALSE
  /\ UNCHANGED <<isHost, retryCount, retryTimer, closePending, timeoutTimer,
                 connState, isConnected, regLog, initCalls>>
  /\ UNCHANGED <<netVars, pageVars>>

\* newPeer.on('open'): for the first registration, and again when a
\* reconnect() has registered the id once more.  connState follows the
\* channel the joiner dialled last.
ChatPeerOpen ==
  /\ \/ cpc = "registering"
     \/ cpc = "registered" /\ signaling = "reconnecting"
  /\ ~closePending
  /\ lastChat' = "open"
  /\ cpc' = "registered"
  /\ regLog' = Append(regLog, "open")
  /\ timeoutTimer' = TRUE
  /\ connState' = IF isHost THEN connState ELSE "pending"
  /\ pagePeer' = reconnectAttempt
  /\ heartbeat' = isHost
  /\ signaling' = "open"
  /\ UNCHANGED <<isHost, retryCount, retryTimer, closePending, connectionError,
                 isConnecting, isConnected, surfaced, initCalls>>
  /\ UNCHANGED <<reconnectAttempt, pageConnection, old, reconnects>>
  /\ UNCHANGED netVars

ErrorKinds == {"taken", "peer-unavailable", "network", "other"}

\* newPeer.on('error'); "taken" stands for server-error and for a message
\* that includes 'is taken', "other" for the types of the last else branch
ChatPeerError(kind) ==
  /\ ~closePending
  /\ CASE kind = "taken" -> cpc = "registering"
       [] kind = "other" -> cpc = "registering"
       [] kind = "network" -> cpc \in {"registering", "registered"}
       [] kind = "peer-unavailable" ->
            cpc = "registered" /\ ~isHost /\ connState = "pending"
  /\ lastChat' = kind
  /\ regLog' = IF cpc = "registering" /\ kind \in {"taken", "other"}
                 THEN Append(regLog, kind) ELSE regLog
  /\ closePending' = (kind \in {"taken", "other"})
  /\ cpc' = IF kind \in {"taken", "other"} THEN "ended" ELSE cpc
  /\ connState' = IF kind = "peer-unavailable" THEN "unavailable" ELSE connState
  /\ IF kind = "taken" /\ RetryAllowed(retryCount)
       THEN /\ retryCount' = retryCount + 1
            /\ retryTimer' = TRUE
            /\ UNCHANGED <<connectionError, isConnecting, surfaced>>
       ELSE /\ connectionError' = IF kind = "taken" THEN "exhausted" ELSE kind
            /\ surfaced' = Surface(connectionError', regLog')
            /\ isConnecting' = FALSE
            /\ UNCHANGED <<retryCount, retryTimer>>
  /\ UNCHANGED <<isHost, timeoutTimer, isConnected, initCalls>>
  /\ UNCHANGED <<netVars, pageVars>>

\* newPeer.on('close'): `connectionError` is the value the render that ran
\* the effect saw, which is null
ChatPeerClose ==
  /\ closePending
  /\ lastChat' = "close"
  /\ closePending' = FALSE
  /\ isConnected' = FALSE
  /\ connectionError' = "closed"
  /\ surfaced' = Surface("closed", regLog)
  /\ isConnecting' = FALSE
  /\ heartbeat' = FALSE
  /\ UNCHANGED <<isHost, cpc, retryCount, retryTimer, timeoutTimer, connState,
                 regLog, initCalls>>
  /\ UNCHANGED <<reconnectAttempt, pagePeer, pageConnection, old, signaling,
                 reconnects>>
  /\ UNCHANGED netVars

\* setTimeout(initializePeer, 1000) fires: initializePeer() up to the await
ChatRetryFire ==
  /\ retryTimer
  /\ ~closePending
  /\ lastChat' = "initializePeer"
  /\ retryTimer' = FALSE
  /\ initCalls' = initCalls + 1
  /\ isConnecting' = TRUE
  /\ connectionError' = NULL
  /\ cpc' = "probing"
  /\ UNCHANGED <<isHost, retryCount, closePending, timeoutTimer, connState,
                 isConnected, regLog, surfaced>>
  /\ UNCHANGED <<netVars, pageVars>>

\* connectionTimeout: `isConnected` is the value the render that ran the
\* effect saw, which is false
ChatTimeout ==
  /\ timeoutTimer
  /\ ~closePending
  /\ lastChat' = "timeout"
  /\ timeoutTimer' = FALSE
  /\ connectionError' = "timeout"
  /\ surfaced' = Surface("timeout", regLog)
  /\ isConnecting' = FALSE
  /\ UNCHANGED <<isHost, cpc, retryCount, retryTimer, closePending, connState,
                 isConnected, regLog, initCalls>>
  /\ UNCHANGED <<netVars, pageVars>>

\* the joiner's conn.on('open')
ChatConnOpen ==
  /\ ~isHost
  /\ cpc = "registered"
  /\ connState = "pending"
  /\ ~closePending
  /\ lastChat' = "connOpen"
  /\ connState' = "open"
  /\ isConnected' = TRUE
  /\ isConnecting' = FALSE
  /\ timeoutTimer' = FALSE
  /\ pageConnection' = reconnectAttempt
  /\ UNCHANGED <<isHost, cpc, retryCount, retryTimer, closePending,
                 connectionError, regLog, surfaced, initCalls>>
  /\ UNCHANGED <<reconnectAttempt, pagePeer, old, heartbeat, signaling,
                 reconnects>>
  /\ UNCHANGED netVars

\* the host's newPeer.on('connection'); the offer comes through the socket
ChatInbound ==
  /\ isHost
  /\ cpc = "registered"
  /\ signaling = "open"
  /\ connState \in {"none", "closed"}
  /\ ~closePending
  /\ lastChat' = "connection"
  /\ connState' = "open"
  /\ isConnected' = TRUE
  /\ isConnecting' = FALSE
  /\ timeoutTimer' = FALSE
  /\ pageConnection' = reconnectAttempt
  /\ UNCHANGED <<isHost, cpc, retryCount, retryTimer, closePending,
                 connectionError, regLog, surfaced, initCalls>>
  /\ UNCHANGED <<reconnectAttempt, pagePeer, old, heartbeat, signaling,
                 reconnects>>
  /\ UNCHANGED netVars

\* conn.on('close'), on either side
ChatConnClose ==
  /\ connState = "open"
  /\ ~closePending
  /\ lastChat' = "connClose"
  /\ connState' = "closed"
  /\ isConnected' = FALSE
  /\ connectionError' = "conn-closed"
  /\ surfaced' = Surface("conn-closed", regLog)
  /\ UNCHANGED <<isHost, cpc, retryCount, retryTimer, closePending, timeoutTimer,
                 isConnecting, regLog, initCalls>>
  /\ UNCHANGED <<netVars, pageVars>>

NextChat ==
  \/ \E serverAvailable \in BOOLEAN : ChatProbe(serverAvailable)
  \/ ChatPeerOpen
  \/ \E kind \in ErrorKinds : ChatPeerError(kind)
  \/ ChatPeerClose
  \/ ChatRetryFire
  \/ ChatTimeout
  \/ ChatConnOpen
  \/ ChatInbound
  \/ ChatConnClose

SpecChat == InitChat /\ [][NextChat]_vars

----------------------------------------------------------------------------
(* SpecPage: the chat page with losses of the signalling socket.            *)
(* SpecReconnect: the chat page with its reconnect button.  handleReconnect *)
(* makes React run the cleanup of the effect and then the effect again; the *)
(* handlers of the earlier runs stay registered on whatever those runs      *)
(* created and was not destroyed.                                           *)

\* variant: a handler that leaves the reconnection to the host's interval
CallsReconnectHostOnly(host) == host

\* the test `if (newPeer)` of the 'disconnected' handler; newPeer is the
\* Peer the handler is registered on
CallsReconnect(host) == TRUE

\* PeerJS loses the socket of the registered peer, sets peer.disconnected and
\* emits 'disconnected'; reconnect() registers the same id again
ChatDisconnected ==
  /\ cpc = "registered"
  /\ signaling = "open"
  /\ ~closePending
  /\ reconnects < MaxSignalLosses
  /\ lastChat' = "disconnected"
  /\ IF CallsReconnect(isHost)
       THEN signaling' = "reconnecting" /\ reconnects' = reconnects + 1
       ELSE signaling' = "disconnected" /\ UNCHANGED reconnects
  /\ UNCHANGED <<isHost, cpc, retryCount, retryTimer, closePending, timeoutTimer,
                 connState, connectionError, isConnecting, isConnected, regLog,
                 surfaced, initCalls>>
  /\ UNCHANGED <<reconnectAttempt, pagePeer, pageConnection, old, heartbeat>>
  /\ UNCHANGED netVars

\* the callback of setInterval(..., 5000) of the host branch
ChatHeartbeat ==
  /\ heartbeat
  /\ ~closePending
  /\ lastChat' = "heartbeat"
  /\ IF signaling = "disconnected"
       THEN signaling' = "reconnecting" /\ reconnects' = reconnects + 1
       ELSE UNCHANGED <<signaling, reconnects>>
  /\ UNCHANGED <<isHost, cpc, retryCount, retryTimer, closePending, timeoutTimer,
                 connState, connectionError, isConnecting, isConnected, regLog,
                 surfaced, initCalls>>
  /\ UNCHANGED <<reconnectAttempt, pagePeer, pageConnection, old, heartbeat>>
  /\ UNCHANGED netVars

\* the locals and objects of the current run of the effect
CurrentRun ==
  [cpc |-> cpc, retryCount |-> retryCount, retryTimer |-> retryTimer,
   timeoutTimer |-> timeoutTimer, connState |-> connState,
   heartbeat |-> heartbeat, calls |-> 0]

LivePeer(R) == R.cpc \in {"registering", "registered"}

\* connection.close() on the channel of run R
RunConnClosed(R) ==
  [R EXCEPT !.connState = IF @ \in {"pending", "open"} THEN "closed" ELSE @]

\* peer.destroy() on the Peer of run R: its channels close, and its 'close'
\* handler clears the interval of that run
RunDestroyed(R) ==
  IF LivePeer(R)
    THEN [RunConnClosed(R) EXCEPT !.cpc = "ended", !.heartbeat = FALSE]
    ELSE R

\* the cleanup function of the effect: clearTimeout(timeoutId) and
\* clearInterval(checkConnectionId); its `connection` and `peer` are the
\* values of the render that ran the effect, which are null
RunCleaned(R) == [R EXCEPT !.timeoutTimer = FALSE, !.heartbeat = FALSE]

\* handleReconnect(), then the cleanup of the effect, then the effect again
\* up to `await checkPeerJSServer()`.  The errors that the close handlers
\* set are overwritten by setConnectionError(null) before any render.
ChatReconnect ==
  LET all0 == Append(old, CurrentRun)
      closes == /\ pageConnection # NoRun
                /\ all0[pageConnection + 1].connState = "open"
      all1 == IF pageConnection # NoRun
                THEN [all0 EXCEPT ![pageConnection + 1] = RunConnClosed(@)]
                ELSE all0
      destroys == pagePeer # NoRun /\ LivePeer(all1[pagePeer + 1])
      all2 == IF pagePeer # NoRun
                THEN [all1 EXCEPT ![pagePeer + 1] = RunDestroyed(@)]
                ELSE all1
  IN  /\ cpc # "none"
      /\ ~closePending
      /\ connectionError # NULL \/ isConnecting \/ ~isConnected
      /\ reconnectAttempt < MaxReconnects
      /\ lastChat' = "handleReconnect"
      /\ old' = [all2 EXCEPT ![Len(all2)] = RunCleaned(@)]
      /\ reconnectAttempt' = reconnectAttempt + 1
      /\ pagePeer' = NoRun
      /\ pageConnection' = NoRun
      /\ connectionError' = NULL
      /\ isConnecting' = TRUE
      /\ isConnected' = IF closes \/ destroys THEN FALSE ELSE isConnected
      /\ cpc' = "probing"
      /\ retryCount' = 0
      /\ retryTimer' = FALSE
      /\ timeoutTimer' = FALSE
      /\ connState' = "none"
      /\ heartbeat' = FALSE
      /\ signaling' = "open"
      /\ initCalls' = 1
      /\ regLog' = <<>>
      /\ surfaced' = {}
      /\ UNCHANGED <<isHost, closePending, reconnects>>
      /\ UNCHANGED netVars

\* a handler of run i-1 runs after the run was replaced: it leaves the
\* current run and its histories alone
Stale(i) ==
  /\ ~closePending
  /\ old[i].calls < MaxStaleCalls
  /\ UNCHANGED <<isHost, cpc, retryCount, retryTimer, closePending, timeoutTimer,
                 connState, heartbeat, signaling, reconnects, regLog, surfaced,
                 initCalls, reconnectAttempt>>
  /\ UNCHANGED netVars

\* checkPeerJSServer of run i-1 resolves after the run was replaced
OldProbe(i, serverAvailable) ==
  /\ old[i].cpc = "probing"
  /\ lastChat' = "old-probe"
  /\ IF serverAvailable
       THEN /\ old' = [old EXCEPT ![i].calls = @ + 1, ![i].cpc = "registering"]
            /\ UNCHANGED <<connectionError, isConnecting>>
       ELSE /\ old' = [old EXCEPT ![i].calls = @ + 1, ![i].cpc = "ended"]
            /\ connectionError' = "signaling"
            /\ isConnecting' = FALSE
  /\ UNCHANGED <<isConnected, pagePeer, pageConnection>>
  /\ Stale(i)

\* newPeer.on('open') of run i-1
OldPeerOpen(i) ==
  /\ old[i].cpc = "registering"
  /\ lastChat' = "old-open"
  /\ old' = [old EXCEPT ![i].calls = @ + 1, ![i].cpc = "registered",
                        ![i].timeoutTimer = TRUE,
                        ![i].heartbeat = isHost,
                        ![i].connState = IF isHost THEN @ ELSE "pending"]
  /\ pagePeer' = i - 1
  /\ UNCHANGED <<connectionError, isConnecting, isConnected, pageConnection>>
  /\ Stale(i)

\* newPeer.on('error') of run i-1 and, for a failed registration, the
\* 'close' handler that PeerJS runs in the same call
OldPeerError(i, kind) ==
  LET R == old[i]
      fatal == kind \in {"taken", "other"}
      retry == kind = "taken" /\ RetryAllowed(R.retryCount)
      shown == IF kind = "taken" THEN "exhausted" ELSE kind
  IN  /\ CASE fatal -> R.cpc = "registering"
           [] kind = "network" -> R.cpc \in {"registering", "registered"}
           [] kind = "peer-unavailable" ->
                R.cpc = "registered" /\ ~isHost /\ R.connState = "pending"
      /\ lastChat' = "old-error"
      /\ old' = [old EXCEPT
                   ![i].calls = @ + 1,
                   ![i].cpc = IF fatal THEN "ended" ELSE @,
                   ![i].connState = IF kind = "peer-unavailable"
                                      THEN "unavailable" ELSE @,
                   ![i].retryCount = IF retry THEN @ + 1 ELSE @,
                   ![i].retryTimer = IF retry THEN TRUE ELSE @,
                   ![i].heartbeat = IF fatal THEN FALSE ELSE @]
      /\ connectionError' = IF fatal THEN "closed" ELSE shown
      /\ isConnecting' = FALSE
      /\ isConnected' = IF fatal THEN FALSE ELSE isConnected
      /\ UNCHANGED <<pagePeer, pageConnection>>
      /\ Stale(i)

\* setTimeout(initializePeer, 1000) of run i-1 fires
OldRetryFire(i) ==
  /\ old[i].retryTimer
  /\ lastChat' = "old-initializePeer"
  /\ old' = [old EXCEPT ![i].calls = @ + 1, ![i].retryTimer = FALSE,
                        ![i].cpc = "probing"]
  /\ isConnecting' = TRUE
  /\ connectionError' = NULL
  /\ UNCHANGED <<isConnected, pagePeer, pageConnection>>
  /\ Stale(i)

\* connectionTimeout of run i-1, scheduled by an 'open' after the cleanup
OldTimeout(i) ==
  /\ old[i].timeoutTimer
  /\ lastChat' = "old-timeout"
  /\ old' = [old EXCEPT ![i].calls = @ + 1, ![i].timeoutTimer = FALSE]
  /\ connectionError' = "timeout"
  /\ isConnecting' = FALSE
  /\ UNCHANGED <<isConnected, pagePeer, pageConnection>>
  /\ Stale(i)

\* conn.on('open') of the joiner, or newPeer.on('connection') of the host,
\* of run i-1
OldConnOpen(i) ==
  /\ old[i].cpc = "registered"
  /\ old[i].connState \in (IF isHost THEN {"none", "closed"} ELSE {"pending"})
  /\ lastChat' = "old-connOpen"
  /\ old' = [old EXCEPT ![i].calls = @ + 1, ![i].connState = "open",
                        ![i].timeoutTimer = FALSE]
  /\ pageConnection' = i - 1
  /\ isConnected' = TRUE
  /\ isConnecting' = FALSE
  /\ UNCHANGED <<connectionError, pagePeer>>
  /\ Stale(i)

\* conn.on('close') of run i-1
OldConnClose(i) ==
  /\ old[i].connState = "open"
  /\ lastChat' = "old-connClose"
  /\ old' = [old EXCEPT ![i].calls = @ + 1, ![i].connState = "closed"]
  /\ isConnected' = FALSE
  /\ connectionError' = "conn-closed"
  /\ UNCHANGED <<isConnecting, pagePeer, pageConnection>>
  /\ Stale(i)

NextPage ==
  \/ NextChat
  \/ ChatDisconnected
  \/ ChatHeartbeat

SpecPage == InitChat /\ [][NextPage]_vars

NextReconnect ==
  \/ NextChat
  \/ ChatReconnect
  \/ \E i \in 1..Len(old), serverAvailable \in BOOLEAN :
       OldProbe(i, serverAvailable)
  \/ \E i \in 1..Len(old) : OldPeerOpen(i)
  \/ \E i \in 1..Len(old), kind \in ErrorKinds : OldPeerError(i, kind)
  \/ \E i \in 1..Len(old) : OldRetryFire(i)
  \/ \E i \in 1..Len(old) : OldTimeout(i)
  \/ \E i \in 1..Len(old) : OldConnOpen(i)
  \/ \E i \in 1..Len(old) : OldConnClose(i)

SpecReconnect == InitChat /\ [][NextReconnect]_vars

----------------------------------------------------------------------------
(* Claims about the room protocol *)

UserSet(m) == {m[i].v : i \in 1..Len(m)}
NoFrameInFlight == \A c \in ChanIds : \A side \in Sides : q[c][side] = <<>>
OpenBothEnds(c) == chan[c].dial = "open" /\ chan[c].acc = "open"
SentTo(evt) == {evt.sent[i].to : i \in 1..Len(evt.sent)}

C3_RebroadcastSkipsSubject ==
  (lastEvt.op = "data" /\ lastEvt.frame.type = "JOIN")
    => LET r == lastEvt.room
           subject == lastEvt.frame.user.id
       IN  /\ subject \notin SentTo(lastEvt)
           /\ subject = UserInfo(r).id => lastEvt.sent = <<>>
           /\ subject # UserInfo(r).id
                => SentTo(lastEvt) = MapKeys(connections[r]) \ {subject}

\* C7 as stated, the restart: the sendMessage call that directly follows a
\* join() call of the same Room returns a message with id 1.
C7_RestartsOnFreshJoin ==
  [][(lastEvt.op = "join" /\ lastEvt'.op = "sendMessage"
        /\ lastEvt'.room = lastEvt.room)
       => lastEvt'.frame.message.id = 1]_vars

\* C7 amended: the ids returned by the successive sendMessage calls of one
\* Room are 1, 2, 3, ... whatever happens between the calls; a leave() and a
\* new join() of the same instance do not restart them.
C7_MessageIdsIncrease ==
  \A r \in Rooms :
    /\ messageIdCounter[r] = Len(sentLog[r])
    /\ \A i \in 1..Len(sentLog[r]) : sentLog[r][i].message.id = i

\* C7 witness: a joiner that sent once after its first dial and a second
\* time after it left, joined again and dialled anew.
C7_Witness ==
  \E r \in Joiners :
    /\ Len(sentLog[r]) = 2
    /\ lastEvt.op = "sendMessage" /\ lastEvt.room = r
    /\ sentLog[r][1].dials = 1
    /\ sentLog[r][2].dials = 2
    /\ sentLog[r][2].message.id = 2

\* C8: a leave() that directly follows a leave() of the same Room changes
\* nothing: it closes no channel, destroys no peer, throws nothing, sends no
\* frame and invokes no callback.
C8_SecondLeaveIsNoOp ==
  [][(lastEvt'.op = "leave" /\ lastEvt'.again)
       => /\ UNCHANGED <<peer, state, connections, users, messageIdCounter, chan, q,
                         sentLog, onMessageLog, onJoinLog>>
          /\ lastEvt'.sent = <<>>
          /\ lastEvt'.cbs = <<>>
          /\ ~lastEvt'.thrown]_vars

\* C8 witness: the second of two successive leave() calls of a Room whose
\* first leave() closed an open channel.
C8_Witness ==
  /\ lastEvt.op = "leave" /\ lastEvt.again
  /\ \E c \in ChanIds : chan[c][SideOf(c, lastEvt.room)] = "closed"
                          /\ Owner(c, SideOf(c, lastEvt.room)) = lastEvt.room
                          /\ chan[c][Other(SideOf(c, lastEvt.room))] = "open"

\* C9: when the channel of a joiner's first dial is open at both ends and
\* every frame sent on it has been delivered, the host's mapping is
\* {host, joiner}, onJoin(joiner id, joiner name) was invoked on the host,
\* and the joiner's mapping is {joiner, host}.
C9_FirstJoinerKnownOnBothSides ==
  \A j \in Joiners :
    LET c == <<j, 1>>
    IN  (OpenBothEnds(c) /\ q[c].dial = <<>> /\ q[c].acc = <<>>)
          => /\ UserSet(users[Host]) = {UserInfo(Host), UserInfo(j)}
             /\ <<j, Username(j)>> \in onJoinLog[Host]
             /\ UserSet(users[j]) = {UserInfo(j), UserInfo(Host)}

\* C9 witness: the first channel is open at both ends and drained.
C9_Witness ==
  /\ OpenBothEnds(<<"a", 1>>)
  /\ NoFrameInFlight
  /\ Len(users[Host]) = 2

CountFrom(log, A, id) ==
  Cardinality({i \in 1..Len(log) : log[i].from = A /\ log[i].message.id = id})
ChatInFlight(c, side, id) ==
  \E i \in 1..Len(q[c][side]) :
    q[c][side][i].type = "CHAT" /\ q[c][side][i].message.id = id

\* C10: the first sendMessage(c) of a Room A returns a message with content
\* c, id 1 and A's username as sender; a Room B joined to A by an open channel
\* that carried the frame has its onMessage invoked exactly once with that
\* message and A's identity, and never more than once.
C10_FirstMessageDeliveredOnce ==
  \A A \in Rooms : \A B \in Rooms \ {A} :
    Len(sentLog[A]) >= 1 =>
      LET m == sentLog[A][1].message
      IN  /\ m.id = 1 /\ m.sender = Username(A) /\ m.content \in Contents
          /\ lastEvt.op = "sendMessage" /\ lastEvt.room = A /\ Len(sentLog[A]) = 1
               => lastEvt.frame = ChatFrame(m)
          /\ CountFrom(onMessageLog[B], A, 1) <= 1
          /\ \A i \in 1..Len(onMessageLog[B]) :
               (onMessageLog[B][i].from = A /\ onMessageLog[B][i].message.id = 1)
                 => onMessageLog[B][i].message = m
          /\ \A c \in sentLog[A][1].chans :
               (/\ Owner(c, SideOf(c, B)) = B
                /\ A \in {Owner(c, "dial"), Owner(c, "acc")}
                /\ OpenBothEnds(c)
                /\ ~ChatInFlight(c, SideOf(c, B), 1))
                 => CountFrom(onMessageLog[B], A, 1) = 1

\* C10 witness: B's onMessage has just been invoked with A's first message.
C10_Witness ==
  /\ lastEvt.op = "data" /\ lastEvt.frame.type = "CHAT"
  /\ lastEvt.frame.message.id = 1
  /\ lastEvt.cbs = <<OnMessageCall(lastEvt.frame.message, lastEvt.peer)>>
  /\ sentLog[lastEvt.peer][1].message = lastEvt.frame.message

\* C11: when a channel closes under a Room that knows the peer at the other
\* end as a member, the Room removes that entry and invokes onLeave(peer)
\* exactly once, and the LEAVE frames it sends go to its other peers only;
\* when the peer is not a known member the close invokes no callback, sends
\* no frame and leaves the membership as it was.  A leave(), which closes
\* the channels itself, invokes no onLeave twice.
C11_CloseRemovesKnownMemberOnce ==
  /\ [][lastEvt'.op = "close"
          => LET r == lastEvt'.room
                 p == lastEvt'.peer
             IN  IF MapHas(users[r], p)
                   THEN /\ ~MapHas(users'[r], p)
                        /\ lastEvt'.cbs = <<OnLeaveCall(p)>>
                        /\ \A i \in 1..Len(lastEvt'.sent) :
                             /\ lastEvt'.sent[i].frame = LeaveFrame(p)
                             /\ lastEvt'.sent[i].to # p
                   ELSE /\ users'[r] = users[r]
                        /\ lastEvt'.cbs = <<>>
                        /\ lastEvt'.sent = <<>>]_vars
  /\ [][lastEvt'.op = "leave"
         => \A i, j \in 1..Len(lastEvt'.cbs) :
              i # j => lastEvt'.cbs[i] # lastEvt'.cbs[j]]_vars

\* C11 witness: the joiner's channel was closed by the host, whom the joiner
\* knew: the joiner's onLeave(host) has just been invoked.
C11_Witness ==
  /\ lastEvt.op = "close"
  /\ lastEvt.room = "a" /\ lastEvt.peer = Host
  /\ lastEvt.cbs = <<OnLeaveCall(Host)>>
  /\ ~MapHas(users["a"], Host)

\* the channels to peer p that are open at Room r's end
OpenChannels(r, p) ==
  {c \in ChanIds : /\ Owner(c, SideOf(c, r)) = r
                   /\ Owner(c, Other(SideOf(c, r))) = p
                   /\ chan[c][SideOf(c, r)] = "open"}

\* C12 as stated: at any time a WebRTCConnection holds at most one open
\* channel to any one remote identity.
C12_OneOpenChannelPerIdentity ==
  \A r \in Rooms : \A p \in Rooms : Cardinality(OpenChannels(r, p)) <= 1

----------------------------------------------------------------------------
(* Claims about JOIN propagation in the mesh *)

\* C4 as stated: with a host and two joiners connected and nobody acting
\* further, the re-broadcast of JOIN frames stops.  Then the program never
\* comes back to a state it was in before sending further JOIN frames: a run
\* that did could repeat the same deliveries for ever, with a frame always in
\* flight.
C4_JoinPropagationStops ==
  ~(mark # NoMark /\ joinSentSinceMark /\ Program = mark)

----------------------------------------------------------------------------
(* Claims about frame order (SpecFrames) *)

FrameUserSet(f) ==
  IF f.type = "JOIN" THEN {f.user} ELSE {f.users[i] : i \in 1..Len(f.users)}
AnnouncedUsers == UNION {FrameUserSet(f) : f \in inbox.announced}
AllDelivered == inbox.announced # {} /\ inbox.pending = {}
\* the names under which an id is known: announced, or given to the constructor
NamesOf(id) ==
  {u.username : u \in {x \in AnnouncedUsers \cup {UserInfo(Host)} : x.id = id}}

\* C1 as stated: once every JOIN and USER_LIST frame of the set is delivered,
\* whatever the order, the membership holds exactly the local member and
\* every announced (id, displayName) pair.
C1_MembershipIsUnionOfPairs ==
  AllDelivered => UserSet(users[Host]) = {UserInfo(Host)} \cup AnnouncedUsers

\* C1 amended: once every JOIN and USER_LIST frame of the set is delivered,
\* whatever the order, the ids of the membership are the local id and every
\* announced id, each id has one entry, an id known under one displayName
\* only has that displayName, and any other id has one of its announced
\* displayNames.
C1_MembersAreAnnouncedIds ==
  AllDelivered =>
    /\ MapKeys(users[Host]) = {Host} \cup {u.id : u \in AnnouncedUsers}
    /\ Len(users[Host]) = Cardinality(MapKeys(users[Host]))
    /\ \A i \in 1..Len(users[Host]) :
         /\ users[Host][i].v.id = users[Host][i].k
         /\ users[Host][i].v.username \in NamesOf(users[Host][i].k)

\* a JOIN and a USER_LIST frame were delivered and announced two other members
C1_Witness ==
  /\ AllDelivered
  /\ \E f, g \in inbox.announced : f.type = "JOIN" /\ g.type = "USER_LIST"
  /\ MapKeys(users[Host]) = {"h", "a", "b"}

----------------------------------------------------------------------------
(* Claims about the chat page (SpecChat) *)

Taken == Len(SelectSeq(regLog, LAMBDA o : o = "taken"))

C6_NoErrorBeforeThirdOpens ==
  regLog = <<"taken", "taken", "open">> =>
    /\ cpc = "registered"
    /\ \A e \in surfaced : e.at >= 3

----------------------------------------------------------------------------
(* Claims about the reconnect button and the signalling socket *)

\* the session Peers that were created and not destroyed, over all runs
LivePeers ==
  Cardinality({i \in 1..Len(old) : LivePeer(old[i])})
    + (IF LivePeer(CurrentRun) THEN 1 ELSE 0)

\* C14: handleReconnect tears the current attempt down completely, so at
\* most one live session Peer exists at any time.
C14_OneLiveSessionPeer == LivePeers <= 1

\* C15: once the guarded connection is established, no connection timeout
\* of that session fires, so no timeout error is surfaced while the page is
\* connected.
C15_NoTimeoutAfterSuccess ==
  ~(lastChat = "timeout" /\ connectionError = "timeout" /\ isConnected)

\* C20: when PeerJS reports the registered peer of a host or of a joiner as
\* disconnected from the signalling server, reconnect() is invoked (in the
\* handler of that report), and the channel of the page stays as it is.
C20_DisconnectedInvokesReconnect ==
  [][(lastChat' = "disconnected" /\ signaling = "open")
       => /\ reconnects' = reconnects + 1
          /\ signaling' = "reconnecting"
          /\ connState' = connState
          /\ pageConnection' = pageConnection
          /\ isConnected' = isConnected]_vars

C20_Witness ==
  /\ lastChat = "disconnected"
  /\ ~isHost
  /\ connState = "open" /\ isConnected
  /\ reconnects = 1
  /\ signaling = "reconnecting"

----------------------------------------------------------------------------
(* Claims about errors *)

\* C16: a connect() to an identity that nobody registered does not stay
\* pending: when PeerJS reports peer-unavailable, the pending join() of the
\* dialler is rejected with that error.
C16_UnavailablePeerRejectsJoin ==
  [][(/\ lastEvt'.op = "peerError"
      /\ lastEvt'.cbs = <<OnErrorCall("peer-unavailable")>>
      /\ pc[lastEvt'.room] = "conn")
       => pc'[lastEvt'.room] = "rejected"]_vars

\* C17: whenever initialize() or connect() has ended in an error, getState()
\* is FAILED.
C17_RejectedMeansFailed ==
  \A r \in Rooms : pc[r] = "rejected" => state[r] = "failed"

\* C18: a payload that is not a well-formed frame is dropped: the
\* membership stays, no callback runs, no frame is sent and no exception
\* escapes the handler.
C18_MalformedFrameIsDropped ==
  [][(lastEvt' # lastEvt /\ lastEvt'.op = "data" /\ lastEvt'.frame \in Malformed)
       => /\ users' = users
          /\ lastEvt'.cbs = <<>>
          /\ lastEvt'.sent = <<>>
          /\ ~lastEvt'.thrown]_vars

\* C19: sendMessage(peerId, payload) and broadcast(payload) never throw;
\* sendMessage returns false and sends nothing without a channel for peerId
\* and returns true exactly when it wrote the payload on that channel;
\* broadcast calls send on every channel of the map, whatever the sends do.
C19_SendsAreBestEffort ==
  [][(ops' = ops + 1 /\ lastEvt'.op \in {"send", "broadcast"})
       => LET e == lastEvt'
              map == connections[e.room]
          IN  /\ ~e.thrown
              /\ e.op = "send" =>
                   /\ ~MapHas(map, e.peer) =>
                         e.ret = "false" /\ e.sent = <<>> /\ e.tried = <<>>
                   /\ e.ret = "true" <=>
                         /\ Len(e.sent) = 1
                         /\ e.sent[1].to = e.peer
                         /\ e.sent[1].frame = e.frame
              /\ e.op = "broadcast" =>
                   e.tried = [i \in 1..Len(map) |-> map[i].v]]_vars

C19_Witness ==
  /\ lastEvt.op = "broadcast"
  /\ lastEvt.frame = Unsendable
  /\ Len(lastEvt.tried) = 2
  /\ lastEvt.sent = <<>>
  /\ ~lastEvt.thrown

----------------------------------------------------------------------------
(* Claims about the frames of the room protocol, one by one *)

\* the channel end at which Room r has just handled a frame: the head of its
\* inbound queue was taken
HandledAt(r, c, side) ==
  /\ Owner(c, side) = r
  /\ q[c][side] # <<>>
  /\ q'[c][side] = Tail(q[c][side])

\* C21: when a channel to a peer opens (connect event), the Room sends on
\* that channel exactly two frames, both to that peer: first JOIN with its
\* own userInfo, then USER_LIST with the values of its membership mapping of
\* that moment; they enter the peer's inbound queue in that order behind
\* what was already there, and a data event always handles the frame at the
\* head of a queue, so the peer handles the JOIN before the USER_LIST.
C21_ConnectSendsJoinThenUserList ==
  /\ [][lastEvt'.op = "connect"
          => LET r == lastEvt'.room
                 p == lastEvt'.peer
                 sent == lastEvt'.sent
             IN  /\ Len(sent) = 2
                 /\ sent[1].frame = JoinFrame(UserInfo(r))
                 /\ sent[2].frame = UserListFrame(MapValues(users[r]))
                 /\ sent[1].to = p /\ sent[2].to = p
                 /\ sent[1].chan = sent[2].chan
                 /\ LET c == sent[1].chan
                        to == Other(SideOf(c, r))
                    IN  /\ chan'[c][SideOf(c, r)] = "open"
                        /\ chan[c][SideOf(c, r)] = "pending"
                        /\ chan[c][to] # "closed"
                             => q'[c][to] =
                                  q[c][to] \o <<sent[1].frame, sent[2].frame>>]_vars
  /\ [][lastEvt'.op = "data"
          => \E c \in ChanIds : \E side \in Sides :
               /\ HandledAt(lastEvt'.room, c, side)
               /\ lastEvt'.frame = Head(q[c][side])
               /\ lastEvt'.peer = Owner(c, Other(side))]_vars

\* C21 witness: the host, which still lists the joiner of an earlier
\* channel, has just opened a channel to that joiner and has queued JOIN and
\* then a USER_LIST of two members for it.
C21_Witness ==
  /\ lastEvt.op = "connect"
  /\ lastEvt.room = Host /\ lastEvt.peer = "a"
  /\ Len(lastEvt.sent) = 2
  /\ lastEvt.sent[1].frame = JoinFrame(UserInfo(Host))
  /\ lastEvt.sent[2].frame.type = "USER_LIST"
  /\ Len(lastEvt.sent[2].frame.users) = 2
  /\ LET c == lastEvt.sent[1].chan
     IN  /\ Len(q[c].dial) >= 2
         /\ SubSeq(q[c].dial, Len(q[c].dial) - 1, Len(q[c].dial)) =
              <<lastEvt.sent[1].frame, lastEvt.sent[2].frame>>

\* the ids of a user list
ListIds(list) == {list[i].id : i \in 1..Len(list)}

\* C22: handling USER_LIST{users} leaves every entry of the membership
\* mapping as it was (same id, same username, same place), adds one entry
\* per listed id that was not known, invokes onJoin exactly once for each
\* added id with the username it stored and for no other id, sends no frame,
\* and handling the same frame again in the resulting state changes nothing
\* and invokes nothing.
C22_UserListIsIdempotentUnion ==
  [][(lastEvt'.op = "data" /\ lastEvt'.frame.type = "USER_LIST")
       => LET r == lastEvt'.room
              list == lastEvt'.frame.users
              cbs == lastEvt'.cbs
              added == ListIds(list) \ MapKeys(users[r])
              again == HandleUserListMessage(
                         [World EXCEPT !.users = users'], r, lastEvt'.frame)
          IN  /\ Len(users'[r]) >= Len(users[r])
              /\ \A i \in 1..Len(users[r]) : users'[r][i] = users[r][i]
              /\ MapKeys(users'[r]) = MapKeys(users[r]) \cup ListIds(list)
              /\ Len(users'[r]) = Len(users[r]) + Cardinality(added)
              /\ Len(cbs) = Cardinality(added)
              /\ \A id \in added :
                   \E i \in 1..Len(cbs) :
                     cbs[i] = OnJoinCall(id, MapGet(users'[r], id).username)
              /\ lastEvt'.sent = <<>>
              /\ ~lastEvt'.thrown
              /\ again.users = users'
              /\ again.cbs = <<>>
              /\ again.sent = <<>>]_vars

\* C22 witness: the host, known to itself as Hana, has handled a list that
\* names it Zed and names the unknown b: its own entry is as before and
\* onJoin ran once, for b.
C22_Witness ==
  /\ lastEvt.op = "data"
  /\ lastEvt.frame =
       UserListFrame(<<[id |-> "h", username |-> "Zed"],
                       [id |-> "b", username |-> "Bo"]>>)
  /\ lastEvt.cbs = <<OnJoinCall("b", "Bo")>>
  /\ MapGet(users[Host], "h") = UserInfo(Host)
  /\ MapGet(users[Host], "b") = [id |-> "b", username |-> "Bo"]

\* C23: handling LEAVE{userId} removes the entry of userId and invokes
\* onLeave(userId) once when the Room knows userId, and changes and invokes
\* nothing when it does not; either way it sends no frame, closes no channel
\* and leaves the connections map and every other Room's membership alone.
C23_LeaveFrameRemovesQuietly ==
  [][(lastEvt'.op = "data" /\ lastEvt'.frame.type = "LEAVE")
       => LET r == lastEvt'.room
              userId == lastEvt'.frame.userId
          IN  /\ IF MapHas(users[r], userId)
                   THEN /\ users'[r] = MapDelete(users[r], userId)
                        /\ ~MapHas(users'[r], userId)
                        /\ lastEvt'.cbs = <<OnLeaveCall(userId)>>
                   ELSE /\ users'[r] = users[r]
                        /\ lastEvt'.cbs = <<>>
              /\ \A o \in Rooms \ {r} : users'[o] = users[o]
              /\ lastEvt'.sent = <<>>
              /\ lastEvt'.tried = <<>>
              /\ chan' = chan
              /\ connections' = connections
              /\ peer' = peer /\ state' = state]_vars

\* C23 witness: joiner b, connected to the host, has just handled the
\* host's LEAVE{a}: it knew a, removed it and invoked onLeave(a).
C23_Witness ==
  /\ lastEvt.op = "data"
  /\ lastEvt.room = "b" /\ lastEvt.peer = Host
  /\ lastEvt.frame = LeaveFrame("a")
  /\ lastEvt.cbs = <<OnLeaveCall("a")>>
  /\ ~MapHas(users["b"], "a")
  /\ MapHas(connections["b"], Host)
  /\ chan[<<"b", 1>>] = [dial |-> "open", acc |-> "open"]

\* the peers with a channel that is open at Room r's end, in channel table ch
ConnectedPeers(ch, r) ==
  {p \in Rooms : \E c \in ChanIds :
                   /\ Owner(c, SideOf(c, r)) = r
                   /\ Owner(c, Other(SideOf(c, r))) = p
                   /\ ch[c][SideOf(c, r)] = "open"}

\* C24 as stated: when a channel to a known member p closes, the Room removes
\* p, invokes onLeave(p) and sends LEAVE{p} to every peer to which it still
\* has an open channel, and to p itself it sends nothing.
C24_DisconnectNotifiesConnectedPeers ==
  [][(lastEvt'.op = "close" /\ MapHas(users[lastEvt'.room], lastEvt'.peer))
       => LET r == lastEvt'.room
              p == lastEvt'.peer
              sent == lastEvt'.sent
          IN  /\ ~MapHas(users'[r], p)
              /\ lastEvt'.cbs = <<OnLeaveCall(p)>>
              /\ \A i \in 1..Len(sent) :
                   sent[i].frame = LeaveFrame(p) /\ sent[i].to # p
              /\ \A o \in ConnectedPeers(chan', r) \ {p} :
                   \E i \in 1..Len(sent) : sent[i].to = o]_vars

\* participant p has left: its join() is not running, every channel it ever
\* dialled is closed at both ends, and no LEAVE{p} is still in flight
Departed(p) ==
  /\ pc[p] = "idle"
  /\ \E c \in ChanIds : c[1] = p /\ chan[c].dial = "closed"
  /\ \A c \in ChanIds :
       c[1] = p => /\ chan[c].dial \in {"none", "closed"}
                   /\ chan[c].acc \in {"none", "closed"}
  /\ \A c \in ChanIds : \A side \in Sides : \A i \in 1..Len(q[c][side]) :
       q[c][side][i] # LeaveFrame(p)

\* C25 as stated: once a participant has left, its channels have closed and
\* the LEAVE frames naming it have been handled, a Room that does not list
\* it does not come to list it again while it stays away.
C25_DepartedStaysAbsent ==
  [][\A p \in Joiners : \A r \in Rooms \ {p} :
       (Departed(p) /\ ~MapHas(users[r], p)) => ~MapHas(users'[r], p)]_vars

\* C26: a leave() of Room r leaves no channel end of r open or pending,
\* releases r's peer, empties r's connections map and membership mapping,
\* sets the state DISCONNECTED, and none of the frames sent during the call
\* is a LEAVE naming r.
C26_LeaveTearsDownSilently ==
  [][lastEvt'.op = "leave"
       => LET r == lastEvt'.room
          IN  /\ \A c \in ChanIds :
                   Owner(c, SideOf(c, r)) = r
                     => chan'[c][SideOf(c, r)] \in {"none", "closed"}
              /\ peer'[r] = "null"
              /\ state'[r] = "disconnected"
              /\ connections'[r] = <<>>
              /\ users'[r] = <<>>
              /\ \A i \in 1..Len(lastEvt'.sent) :
                   lastEvt'.sent[i].frame # LeaveFrame(UserInfo(r).id)
              /\ ~lastEvt'.thrown]_vars

\* C26 witness: the host has left while it held an open channel to the
\* joiner it knew: the channel is closed at its end, onLeave ran for the
\* joiner, and its peer, connections and membership are gone.
C26_Witness ==
  /\ lastEvt.op = "leave" /\ lastEvt.room = Host
  /\ lastEvt.cbs = <<OnLeaveCall("a")>>
  /\ lastEvt.sent = <<>>
  /\ chan[<<"a", 1>>].acc = "closed"
  /\ chan[<<"a", 1>>].dial = "open"
  /\ peer[Host] = "null"
  /\ connections[Host] = <<>>
  /\ users[Host] = <<>>

\* C27: handling CHAT{message} invokes onMessage once, with the message of
\* the frame and the identity of the peer at the other end of the channel
\* the frame came in on; the application sees one more message, also when it
\* has seen the same message before; the membership, the connections and
\* the channels stay as they were and no frame is sent.
C27_ChatIsForwardedOnce ==
  [][(lastEvt'.op = "data" /\ lastEvt'.frame.type = "CHAT")
       => LET r == lastEvt'.room
              p == lastEvt'.peer
              frame == lastEvt'.frame
          IN  /\ \E c \in ChanIds : \E side \in Sides :
                   /\ HandledAt(r, c, side)
                   /\ Head(q[c][side]) = frame
                   /\ Owner(c, Other(side)) = p
              /\ lastEvt'.cbs = <<OnMessageCall(frame.message, p)>>
              /\ onMessageLog'[r] =
                   Append(onMessageLog[r], [message |-> frame.message, from |-> p])
              /\ \A o \in Rooms \ {r} : onMessageLog'[o] = onMessageLog[o]
              /\ users' = users
              /\ connections' = connections
              /\ chan' = chan
              /\ lastEvt'.sent = <<>>
              /\ lastEvt'.tried = <<>>
              /\ ~lastEvt'.thrown]_vars

\* C27 witness: joiner a has just handled a CHAT frame from the host that it
\* had handled before: its application has seen the message twice.
C27_Witness ==
  /\ lastEvt.op = "data" /\ lastEvt.room = "a" /\ lastEvt.peer = Host
  /\ lastEvt.frame.type = "CHAT"
  /\ Len(onMessageLog["a"]) = 2
  /\ onMessageLog["a"][1] = onMessageLog["a"][2]
  /\ onMessageLog["a"][2] = [message |-> lastEvt.frame.message, from |-> Host]

\* C28 as stated: the keys of a WebRTCConnection's connections map are
\* exactly the remote identities to which it has an open channel, and every
\* entry holds a channel that is open at its end.
C28_ConnectionsAreOpenChannels ==
  \A r \in Rooms :
    /\ MapKeys(connections[r]) = ConnectedPeers(chan, r)
    /\ \A i \in 1..Len(connections[r]) :
         LET c == connections[r][i].v
         IN  chan[c][SideOf(c, r)] = "open"

\* C29 as stated: a WebRTCConnection that has an open channel reports the
\* state CONNECTED.
C29_OpenChannelMeansConnected ==
  \A r \in Rooms : ConnectedPeers(chan, r) # {} => state[r] = "connected"

====
